---- MODULE Spec2Model ----
(***************************************************************************)
(* The Arr gateway (src/arr.ts) and the database module (db.ts) of         *)
(* cross-seed as one state machine.                                        *)
(*                                                                         *)
(* Life cycle: the database module is evaluated on import (raw handle,     *)
(* journal_mode pragma, close, the two Knex connections, the two in-memory *)
(* tables), then validateUArrLs runs at startup, then the daemon calls     *)
(* scanAllArrsForMedia and getRelevantArrIds over and over.  Every await   *)
(* of a request to an arr is a step boundary: an action is the synchronous *)
(* run of the code between two awaits.                                     *)
(***************************************************************************)
EXTENDS Integers, Sequences, FiniteSets, TLC

\* ------------------------------------------------------------------ bounds

\* Longest sonarr list and longest radarr list of the configuration.
MaxSonarr == 2
MaxRadarr == 1

\* ------------------------------------------------------------- JS values

\* undefined (and null: every test the code applies treats them alike).
Undef == "undefined"

\* A missing movie/series record, a missing JSON body.
NoRecord == [undefined |-> TRUE]

\* Values an id field of an arr response takes: absent, present but falsy
\* (Radarr answers 0 or "" for an id it does not know), present and truthy.
IdValues == {Undef, "", "tt1"}

\* isTruthy / Boolean(v) on an id value.
Falsy == {Undef, ""}

\* interface ExternalIds
ExternalIds == [imdbId : IdValues, tmdbId : IdValues, tvdbId : IdValues]

\* type ParsedMedia = ParsedMovie | ParsedSeries, and the body the parse
\* endpoint answers for a title it does not know (neither record), which the
\* code handles with `?? {}`.
ParsedMedia ==
    {[movie |-> m, series |-> NoRecord] : m \in ExternalIds}
        \cup {[movie |-> NoRecord, series |-> s] : s \in ExternalIds}
        \cup {[movie |-> NoRecord, series |-> NoRecord]}

\* Bodies of the ping at /api: {current: string}, a body without `current`,
\* and JSON null (the code reads it with `?.`).
PingBodies == {[current |-> "v3"], [current |-> Undef], NoRecord}

\* MediaType (utils.ts), the members getRelevantArrInstances names.
MediaTypes == {"EPISODE", "SEASON", "MOVIE", "ANIME", "OTHER"}

\* ------------------------------------------------------- configuration

\* Arr URLs a configuration may list; the last one carries no apikey
\* query parameter.
KeyedUrls == {"http://a?apikey=k", "http://b?apikey=k"}
Urls == KeyedUrls \cup {"http://c"}

\* url.searchParams.has("apikey")
HasApikey(u) == u \in KeyedUrls

UrlLists(max) == UNION {[1..n -> Urls] : n \in 0..max}

\* Searchee names, as token sequences: title words, resolution, release
\* group, extension.
Names == {<<"Show", "1080p", "-GRP", ".mkv">>}

Extensions == {".mkv"}
StrippedTokens == {"1080p", "-GRP", "REPACK"}

\* ------------------------------------------------------------ Result<T,E>

Ok(v) == [kind |-> "Ok", value |-> v]
Err(e) == [kind |-> "Err", error |-> e]
\* Not a Result: the promise of the call rejects (the exception escapes).
Raise(e) == [kind |-> "Raise", error |-> e]
Pending == [kind |-> "Pending"]
None == [kind |-> "None"]

\* ------------------------------------------------------ makeArrApiCall

\* What the network does with one request.  fetch: it rejects (with the
\* error of that name) or resolves with a response; ok: response.ok; body:
\* what reading the body gives: JSON text, other text, or a failure of the
\* read itself (the connection breaks or the 30 s signal aborts while the
\* body is streamed: fetch resolves once the headers are in); json: the
\* decoded body of a 2xx response (the body of another status is never
\* decoded).
FetchErrors == {"AbortError", "TimeoutError", "fetch failed"}
BodyKinds == {"json", "text", "readfail"}

Outcomes(bodies) ==
    {[fetch |-> f, ok |-> FALSE, body |-> "none", json |-> NoRecord] : f \in FetchErrors}
        \cup {[fetch |-> "response", ok |-> FALSE, body |-> b, json |-> NoRecord] :
                 b \in BodyKinds}
        \cup {[fetch |-> "response", ok |-> TRUE, body |-> b, json |-> NoRecord] :
                 b \in {"text", "readfail"}}
        \cup {[fetch |-> "response", ok |-> TRUE, body |-> "json", json |-> j] :
                 j \in bodies}

makeArrApiCall(o) ==
    IF o.fetch # "response"
    THEN \* catch (networkError), lines 129-134
         IF o.fetch = "AbortError" THEN Err("connection timeout") ELSE Err(o.fetch)
    ELSE IF ~o.ok
    THEN \* lines 135-143: response.text() is awaited outside any try
         IF o.body = "readfail" THEN Raise("body read failed") ELSE Err("status")
    ELSE IF o.body = "json"
    THEN Ok(o.json)
    ELSE \* catch (e), lines 147-154: response.text() is awaited in the handler
         IF o.body = "readfail" THEN Raise("body read failed") ELSE Err("non-JSON")

\* ------------------------------------------------------------- variables

VARIABLES
    pc,           \* where the program is
    sonarr,       \* getRuntimeConfig().sonarr
    radarr,       \* getRuntimeConfig().radarr
    journalMode,  \* journal mode recorded in the file cross-seed.db
    rawOpen,      \* rawSqliteHandle is open
    dbFile,       \* database the connection `db` is bound to
    memFile,      \* database the connection `memDB` is bound to
    fileTables,   \* tables of cross-seed.db
    memTables,    \* tables of the in-memory database
    dbOps,        \* journal modes operations through `db` have run under
    contacted,    \* validateUArrLs: the URLs pinged so far, in order
    startup,      \* validateUArrLs: "pending", "ok" or the error it threw
    lastCall,     \* outcome and result of the latest makeArrApiCall
    mediaType,    \* scanAllArrsForMedia: its mediaType argument
    searchee,     \* scanAllArrsForMedia: searchee.name
    queried,      \* scanAllArrsForMedia: the requests issued so far
    scanResult,   \* scanAllArrsForMedia: what the call settled with
    idCall        \* getRelevantArrIds: its arguments and what it returned

vars == <<pc, sonarr, radarr, journalMode, rawOpen, dbFile, memFile, fileTables,
          memTables, dbOps, contacted, startup, lastCall, mediaType, searchee,
          queried, scanResult, idCall>>

dbVars == <<journalMode, rawOpen, dbFile, memFile, fileTables, memTables, dbOps>>
validateVars == <<contacted, startup>>
scanVars == <<mediaType, searchee, queried, scanResult>>
configVars == <<sonarr, radarr>>

\* ------------------------------------------------- the database module

Filename == "cross-seed.db"
Memory == ":memory:"
PersistentTables ==
    {"decision", "searchee_timestamp", "indexer", "indexer_category", "job_status"}

\* Journal mode a connection to database f runs under.
ModeOf(f) == IF f = Filename THEN journalMode ELSE "memory"

\* const rawSqliteHandle = new Sqlite(filename)
OpenRaw ==
    /\ pc = "db_open"
    /\ rawOpen' = TRUE
    /\ pc' = "db_pragma"
    /\ UNCHANGED <<journalMode, dbFile, memFile, fileTables, memTables, dbOps>>
    /\ UNCHANGED <<configVars, validateVars, scanVars, lastCall, idCall>>

\* Mutant of SetJournalMode: the pragma is left out (the handle is opened and
\* closed, the file keeps the journal mode it had).
SetJournalModeSkipped ==
    /\ pc = "db_pragma"
    /\ rawOpen
    /\ pc' = "db_close"
    /\ UNCHANGED <<journalMode, rawOpen, dbFile, memFile, fileTables, memTables, dbOps>>
    /\ UNCHANGED <<configVars, validateVars, scanVars, lastCall, idCall>>

\* rawSqliteHandle.pragma("journal_mode = WAL"): the mode is stored in the file
SetJournalMode ==
    /\ pc = "db_pragma"
    /\ rawOpen
    /\ journalMode' = "wal"
    /\ pc' = "db_close"
    /\ UNCHANGED <<rawOpen, dbFile, memFile, fileTables, memTables, dbOps>>
    /\ UNCHANGED <<configVars, validateVars, scanVars, lastCall, idCall>>

\* rawSqliteHandle.close()
CloseRaw ==
    /\ pc = "db_close"
    /\ rawOpen' = FALSE
    /\ pc' = "db_knex"
    /\ UNCHANGED <<journalMode, dbFile, memFile, fileTables, memTables, dbOps>>
    /\ UNCHANGED <<configVars, validateVars, scanVars, lastCall, idCall>>

\* connection of `db`
DbConnection == Filename

\* connection of `memDB`
MemConnection == Memory

\* export const db = Knex.knex({connection: {filename}, ...})
CreateDb ==
    /\ pc = "db_knex"
    /\ dbFile' = DbConnection
    /\ pc' = "mem_knex"
    /\ UNCHANGED <<journalMode, rawOpen, memFile, fileTables, memTables, dbOps>>
    /\ UNCHANGED <<configVars, validateVars, scanVars, lastCall, idCall>>

\* export const memDB = Knex.knex({connection: ":memory:", ...})
CreateMemDB ==
    /\ pc = "mem_knex"
    /\ memFile' = MemConnection
    /\ pc' = "mem_data"
    /\ UNCHANGED <<journalMode, rawOpen, dbFile, fileTables, memTables, dbOps>>
    /\ UNCHANGED <<configVars, validateVars, scanVars, lastCall, idCall>>

\* await memDB.schema.createTable(t, ...): the table is made in the database
\* memDB is connected to
CreateTable(at, t, next) ==
    /\ pc = at
    /\ IF memFile = Memory
       THEN memTables' = memTables \cup {t} /\ UNCHANGED fileTables
       ELSE fileTables' = fileTables \cup {t} /\ UNCHANGED memTables
    /\ pc' = next
    /\ UNCHANGED <<journalMode, rawOpen, dbFile, memFile, dbOps>>
    /\ UNCHANGED <<configVars, validateVars, scanVars, lastCall, idCall>>

CreateDataTable == CreateTable("mem_data", "data", "mem_ensemble")
CreateEnsembleTable == CreateTable("mem_ensemble", "ensemble", "migrate")

\* An operation through `db` by an importer of the module: the migrations at
\* startup, the reads and writes of the daemon afterwards.  The connection
\* opens the file in the journal mode the file records.
DbOperation ==
    /\ pc \in {"migrate", "idle"}
    /\ dbFile # Undef
    /\ dbOps' = dbOps \cup {ModeOf(dbFile)}
    /\ fileTables' = IF dbFile = Filename THEN fileTables \cup PersistentTables
                     ELSE fileTables
    /\ pc' = IF pc = "migrate" THEN "startup" ELSE pc
    /\ UNCHANGED <<journalMode, rawOpen, dbFile, memFile, memTables>>
    /\ UNCHANGED <<configVars, validateVars, scanVars, lastCall, idCall>>

\* ------------------------------------------------------ validateUArrLs

\* The URLs validateUArrLs walks: the sonarr loop, then the radarr loop.
ValidatedUrls == sonarr \o radarr

\* arrPingResponse?.current
Current(body) == IF body = NoRecord THEN Undef ELSE body.current

\* checkArrIsActive after its await: what it throws, or "ok"
checkArrIsActive(result) ==
    IF result.kind = "Ok"
    THEN IF Current(result.value) \in Falsy THEN "CrossSeedError" ELSE "ok"
    ELSE IF result.kind = "Err"
    THEN "CrossSeedError"
    ELSE \* the rejection of makeArrApiCall is not caught here
         "Error"

\* The loops of validateUArrLs from position i up to the next await.
ValidateFrom(i) ==
    IF i > Len(ValidatedUrls)
    THEN /\ startup' = "ok"
         /\ pc' = "idle"
         /\ UNCHANGED contacted
    ELSE IF ~HasApikey(ValidatedUrls[i])
    THEN /\ startup' = "CrossSeedError"
         /\ pc' = "fatal"
         /\ UNCHANGED contacted
    ELSE /\ contacted' = Append(contacted, ValidatedUrls[i])
         /\ pc' = "validate"
         /\ UNCHANGED startup

\* validateUArrLs() is called
validateUArrLs ==
    /\ pc = "startup"
    /\ ValidateFrom(1)
    /\ UNCHANGED <<configVars, dbVars, scanVars, lastCall, idCall>>

\* the ping in flight settles
PingResponds ==
    /\ pc = "validate"
    /\ \E o \in Outcomes(PingBodies) :
         LET result == makeArrApiCall(o)
             check == checkArrIsActive(result)
         IN /\ lastCall' = [outcome |-> o, result |-> result]
            /\ IF check = "ok"
               THEN ValidateFrom(Len(contacted) + 1)
               ELSE /\ startup' = check
                    /\ pc' = "fatal"
                    /\ UNCHANGED contacted
    /\ UNCHANGED <<configVars, dbVars, scanVars, idCall>>

\* --------------------------------------------------- scanAllArrsForMedia

Range(seq) == {seq[i] : i \in 1..Len(seq)}

\* Mutant of getRelevantArrInstances: every media type falls through to the
\* last case.
getAllArrInstances(mt) == sonarr \o radarr

getRelevantArrInstances(mt) ==
    CASE mt \in {"SEASON", "EPISODE"} -> sonarr
      [] mt = "MOVIE" -> radarr
      [] mt \in {"ANIME", "OTHER"} -> sonarr \o radarr
      [] OTHER -> <<>>

\* stripExtension(name)
stripExtension(name) ==
    IF Len(name) > 0 /\ name[Len(name)] \in Extensions
    THEN SubSeq(name, 1, Len(name) - 1)
    ELSE name

\* const title = ..., lines 239-247
Title(mt, name) ==
    IF mt = "OTHER"
    THEN SelectSeq(stripExtension(name), LAMBDA t : t \notin StrippedTokens)
    ELSE name

\* const name = ..., lines 250-254: the title sent to instance uArrL
RequestName(mt, title, uArrL) ==
    IF mt = "OTHER" /\ uArrL \in Range(sonarr)
    THEN Append(title, "S00E00")
    ELSE title

\* response.movie ?? response.series ?? {}
IdsOf(response) ==
    IF response.movie # NoRecord THEN response.movie
    ELSE IF response.series # NoRecord THEN response.series
    ELSE [imdbId |-> Undef, tmdbId |-> Undef, tvdbId |-> Undef]

\* Object.values(ids).some(isTruthy)
SomeTruthy(ids) ==
    \E f \in DOMAIN ids : ids[f] \notin Falsy

\* Mutant of Found: only the imdb id is looked at.
FoundImdbOnly(response) == IdsOf(response).imdbId \notin Falsy

\* Mutant of Found: the first decoded response is returned, ids or not.
FoundAnyOk(response) == TRUE

\* The response ends the scan: scanAllArrsForMedia returns Ok with it.
Found(response) == SomeTruthy(IdsOf(response))

\* The for loop from position i up to the next await (or to the return).
ScanFrom(i) ==
    LET uArrLs == getRelevantArrInstances(mediaType')
        title == Title(mediaType', searchee')
    IN IF i > Len(uArrLs)
       THEN /\ scanResult' = Err("false")
            /\ pc' = "scanned"
            /\ UNCHANGED queried
       ELSE /\ queried' = Append(queried,
                              [url |-> uArrLs[i],
                               name |-> RequestName(mediaType', title, uArrLs[i])])
            /\ scanResult' = Pending
            /\ pc' = "scan"

\* scanAllArrsForMedia(searchee, mediaType) is called
scanAllArrsForMedia ==
    /\ pc = "idle"
    /\ \E mt \in MediaTypes, name \in Names :
         /\ mediaType' = mt
         /\ searchee' = name
         /\ queried = <<>>
         /\ ScanFrom(1)
    /\ lastCall' = None
    /\ UNCHANGED <<configVars, dbVars, validateVars, idCall>>

\* the request in flight settles
ArrResponds ==
    /\ pc = "scan"
    /\ UNCHANGED <<mediaType, searchee>>
    /\ \E o \in Outcomes(ParsedMedia) :
         LET result == makeArrApiCall(o)
         IN /\ lastCall' = [outcome |-> o, result |-> result]
            /\ CASE result.kind = "Raise" ->
                      /\ scanResult' = result
                      /\ pc' = "scanned"
                      /\ UNCHANGED queried
                 [] result.kind = "Err" ->
                      ScanFrom(Len(queried) + 1)
                 [] result.kind = "Ok" ->
                      IF Found(result.value)
                      THEN /\ scanResult' = Ok(result.value)
                           /\ pc' = "scanned"
                           /\ UNCHANGED queried
                      ELSE ScanFrom(Len(queried) + 1)
    /\ UNCHANGED <<configVars, dbVars, validateVars, idCall>>

\* ----------------------------------------------------- getRelevantArrIds

IdCaps == [tvdbId : BOOLEAN, tmdbId : BOOLEAN, imdbId : BOOLEAN]
Caps == [movieIdSearch : IdCaps, tvIdSearch : IdCaps]

\* Mutant of getRelevantArrIds: the tv-id caps are read for movies too.
getRelevantArrIdsTvCaps(caps, parsedMedia) ==
    LET idSearchCaps == caps.tvIdSearch
        ids == IF parsedMedia.movie # NoRecord
               THEN parsedMedia.movie
               ELSE parsedMedia.series
    IN IF ids = NoRecord
       THEN Raise("TypeError")
       ELSE [kind |-> "Return",
             value |-> [tvdbid |-> IF idSearchCaps.tvdbId THEN ids.tvdbId ELSE Undef,
                        tmdbid |-> IF idSearchCaps.tmdbId THEN ids.tmdbId ELSE Undef,
                        imdbid |-> IF idSearchCaps.imdbId THEN ids.imdbId ELSE Undef]]

getRelevantArrIds(caps, parsedMedia) ==
    LET idSearchCaps == IF parsedMedia.movie # NoRecord
                        THEN caps.movieIdSearch
                        ELSE caps.tvIdSearch
        ids == IF parsedMedia.movie # NoRecord
               THEN parsedMedia.movie
               ELSE parsedMedia.series
    IN IF ids = NoRecord
       THEN Raise("TypeError")
       ELSE [kind |-> "Return",
             value |-> [tvdbid |-> IF idSearchCaps.tvdbId THEN ids.tvdbId ELSE Undef,
                        tmdbid |-> IF idSearchCaps.tmdbId THEN ids.tmdbId ELSE Undef,
                        imdbid |-> IF idSearchCaps.imdbId THEN ids.imdbId ELSE Undef]]

\* The caller got Ok from the scan and asks for the ids an indexer with
\* capabilities caps can search by.
GetRelevantArrIds ==
    /\ pc = "scanned"
    /\ scanResult.kind = "Ok"
    /\ \E caps \in Caps :
         idCall' = [caps |-> caps,
                    parsedMedia |-> scanResult.value,
                    result |-> getRelevantArrIds(caps, scanResult.value)]
    /\ pc' = "ids"
    /\ mediaType' = Undef
    /\ searchee' = <<>>
    /\ queried' = <<>>
    /\ scanResult' = None
    /\ lastCall' = None
    /\ UNCHANGED <<configVars, dbVars, validateVars>>

\* The caller goes on: with the ids, or without ids after Err(false) or
\* after the rejection.
Proceed ==
    /\ \/ pc = "ids"
       \/ pc = "scanned" /\ scanResult.kind # "Ok"
    /\ pc' = "idle"
    /\ mediaType' = Undef
    /\ searchee' = <<>>
    /\ queried' = <<>>
    /\ scanResult' = None
    /\ lastCall' = None
    /\ idCall' = None
    /\ UNCHANGED <<configVars, dbVars, validateVars>>

\* ------------------------------------------------------- specification

Configurations == UrlLists(MaxSonarr) \X UrlLists(MaxRadarr)

Init ==
    /\ pc = "db_open"
    /\ \E c \in Configurations : sonarr = c[1] /\ radarr = c[2]
    /\ journalMode \in {"delete", "wal"}
    /\ rawOpen = FALSE
    /\ dbFile = Undef
    /\ memFile = Undef
    /\ fileTables = {}
    /\ memTables = {}
    /\ dbOps = {}
    /\ contacted = <<>>
    /\ startup = "pending"
    /\ lastCall = None
    /\ mediaType = Undef
    /\ searchee = <<>>
    /\ queried = <<>>
    /\ scanResult = None
    /\ idCall = None

Next ==
    \/ OpenRaw
    \/ SetJournalMode
    \/ CloseRaw
    \/ CreateDb
    \/ CreateMemDB
    \/ CreateDataTable
    \/ CreateEnsembleTable
    \/ DbOperation
    \/ validateUArrLs
    \/ PingResponds
    \/ scanAllArrsForMedia
    \/ ArrResponds
    \/ GetRelevantArrIds
    \/ Proceed

Spec == Init /\ [][Next]_vars

\* ------------------------------------------------------------- claims

\* A truthy imdbId, tmdbId or tvdbId in record rec.
TruthyIdIn(rec) ==
    /\ rec # NoRecord
    /\ \/ rec.imdbId \notin Falsy
       \/ rec.tmdbId \notin Falsy
       \/ rec.tvdbId \notin Falsy

CarriesTruthyId(response) ==
    TruthyIdIn(response.movie) \/ TruthyIdIn(response.series)

IsPrefix(p, q) ==
    /\ Len(p) <= Len(q)
    /\ \A i \in 1..Len(p) : p[i] = q[i]

QueriedUrls == [i \in 1..Len(queried) |-> queried[i].url]

\* C1: when the request in flight is answered by a response that carries a
\* truthy id in its movie or series record, scanAllArrsForMedia returns Ok
\* with exactly that response, and that step issues no further request.
C1_StopAtFirstTruthyId ==
    [][(/\ pc = "scan"
        /\ lastCall' # None
        /\ lastCall'.result.kind = "Ok"
        /\ CarriesTruthyId(lastCall'.result.value))
       => (/\ pc' = "scanned"
           /\ scanResult' = Ok(lastCall'.outcome.json)
           /\ queried' = queried)]_vars

\* C1 witness: a scan returned Ok from its second request and left a later
\* instance of the list unqueried.
C1_Witness ==
    /\ pc = "scanned"
    /\ scanResult.kind = "Ok"
    /\ Len(queried) = 2
    /\ Len(queried) < Len(getRelevantArrInstances(mediaType))

\* C3 as claimed: the URLs a scan queries are, in order, among the Sonarr
\* instances for SEASON, EPISODE and ANIME, among the Radarr instances for
\* MOVIE, and among both only for OTHER.
C3_AnimeOnlySonarr ==
    pc \in {"scan", "scanned"} =>
        IsPrefix(QueriedUrls,
                 CASE mediaType \in {"SEASON", "EPISODE", "ANIME"} -> sonarr
                   [] mediaType = "MOVIE" -> radarr
                   [] mediaType = "OTHER" -> sonarr \o radarr)

\* C3 amended: the URLs a scan queries are, in order, among the Sonarr
\* instances for SEASON and EPISODE, among the Radarr instances for MOVIE,
\* and among the Sonarr instances followed by the Radarr instances for ANIME
\* and OTHER.
C3_InstancesByMediaType ==
    pc \in {"scan", "scanned"} =>
        IsPrefix(QueriedUrls,
                 CASE mediaType \in {"SEASON", "EPISODE"} -> sonarr
                   [] mediaType = "MOVIE" -> radarr
                   [] mediaType \in {"ANIME", "OTHER"} -> sonarr \o radarr)

\* C3 witness: an ANIME scan went through every Sonarr instance and has
\* queried the Radarr instance.
C3_Witness ==
    /\ pc \in {"scan", "scanned"}
    /\ mediaType = "ANIME"
    /\ Len(sonarr) > 0
    /\ Len(radarr) > 0
    /\ Len(queried) = Len(sonarr) + Len(radarr)

\* C5: each id getRelevantArrIds returns is undefined or the id of that type
\* the arr resolved, and it is defined only if the caps of the matching
\* search mode (movie-id caps for a movie, tv-id caps otherwise) declare
\* support for that id type.
C5_OnlySupportedIds ==
    (idCall # None /\ idCall.result.kind = "Return") =>
        LET pm == idCall.parsedMedia
            isMovie == pm.movie # NoRecord
            arr == IF isMovie THEN pm.movie ELSE pm.series
            mode == IF isMovie THEN idCall.caps.movieIdSearch
                    ELSE idCall.caps.tvIdSearch
            out == idCall.result.value
        IN /\ out.tvdbid \in {Undef, arr.tvdbId}
           /\ out.tmdbid \in {Undef, arr.tmdbId}
           /\ out.imdbid \in {Undef, arr.imdbId}
           /\ out.tvdbid # Undef => mode.tvdbId
           /\ out.tmdbid # Undef => mode.tmdbId
           /\ out.imdbid # Undef => mode.imdbId

\* C5 witness: for a movie with a tmdb id and an imdb id, the indexer
\* searches movies by tmdb id only (and tv by imdb id): the tmdb id is
\* emitted and the imdb id is withheld.
C5_Witness ==
    /\ idCall # None
    /\ idCall.result.kind = "Return"
    /\ idCall.parsedMedia.movie # NoRecord
    /\ idCall.parsedMedia.movie.tmdbId \notin Falsy
    /\ idCall.parsedMedia.movie.imdbId \notin Falsy
    /\ idCall.caps.movieIdSearch.tmdbId
    /\ ~idCall.caps.movieIdSearch.imdbId
    /\ idCall.caps.tvIdSearch.imdbId
    /\ idCall.result.value.tmdbid = idCall.parsedMedia.movie.tmdbId
    /\ idCall.result.value.imdbid = Undef

\* C8: once the connection `db` exists the file is in WAL journal mode and
\* the raw handle is closed, every operation through `db` has run under WAL,
\* and the tables `data` and `ensemble` are in the in-memory database and
\* never in the persistent file.
C8_WalBeforeUse ==
    /\ dbFile # Undef => (journalMode = "wal" /\ ~rawOpen)
    /\ dbOps \subseteq {"wal"}
    /\ fileTables \cap {"data", "ensemble"} = {}
    /\ pc \notin {"db_open", "db_pragma", "db_close", "db_knex", "mem_knex",
                  "mem_data", "mem_ensemble"}
           => (memFile = Memory /\ memTables = {"data", "ensemble"})

\* C8 witness: the module is initialised and an operation through `db` has
\* created the persistent tables.
C8_Witness ==
    /\ dbOps = {"wal"}
    /\ PersistentTables \subseteq fileTables
    /\ memTables = {"data", "ensemble"}

\* C10: every Ok result of scanAllArrsForMedia has a movie or series record
\* with at least one truthy id, and getRelevantArrIds returns (does not
\* throw) on it, for every caps.
C10_OkHasIdRecord ==
    /\ scanResult.kind = "Ok" =>
           /\ CarriesTruthyId(scanResult.value)
           /\ \A caps \in Caps :
                  getRelevantArrIds(caps, scanResult.value).kind = "Return"
    /\ idCall # None => idCall.result.kind = "Return"

\* C10 witness: getRelevantArrIds returned for the series record of an Ok
\* result.
C10_Witness ==
    /\ pc = "ids"
    /\ idCall.result.kind = "Return"
    /\ idCall.parsedMedia.series # NoRecord

\* The ping answered as startup validation wants it: a 2xx response whose
\* body is JSON with a truthy `current`.
GoodPing(call) ==
    /\ call.outcome.fetch = "response"
    /\ call.outcome.ok
    /\ call.outcome.body = "json"
    /\ Current(call.outcome.json) \notin Falsy

\* Position i of the list scanned is an entry of the sonarr list.
IsSonarrEntry(i) ==
    mediaType \in {"SEASON", "EPISODE", "ANIME", "OTHER"} /\ i <= Len(sonarr)

\* C2 as claimed: scanAllArrsForMedia never raises; unless a response
\* carried a truthy id it returns Err(false), and with no relevant instance
\* it does so without issuing a request.
C2_DegradesGracefully ==
    pc = "scanned" =>
        /\ scanResult.kind \in {"Ok", "Err"}
        /\ scanResult.kind = "Err" => scanResult = Err("false")
        /\ scanResult.kind = "Ok" =>
               (lastCall # None /\ CarriesTruthyId(lastCall.outcome.json))
        /\ getRelevantArrInstances(mediaType) = <<>> =>
               (scanResult = Err("false") /\ queried = <<>> /\ lastCall = None)

\* C4 as claimed: for OTHER the title sent to every entry of the sonarr list
\* ends with the suffix S00E00 and the title sent to every entry of the
\* radarr list does not; for every other media type the unmodified searchee
\* name is sent.
C4_SuffixOnlyForSonarr ==
    pc \in {"scan", "scanned"} =>
        \A i \in 1..Len(queried) :
            LET name == queried[i].name
            IN IF mediaType = "OTHER"
               THEN IF IsSonarrEntry(i)
                    THEN name[Len(name)] = "S00E00"
                    ELSE name[Len(name)] # "S00E00"
               ELSE name = searchee

\* C6 as claimed: validateUArrLs completes without error exactly when every
\* URL has an apikey and answered its ping with a truthy `current`;
\* otherwise it throws a CrossSeedError at the first offending URL; no URL
\* without an apikey is contacted and no URL after the offending one.
C6_StartupValidation ==
    /\ IsPrefix(contacted, ValidatedUrls)
    /\ \A i \in 1..Len(contacted) : HasApikey(contacted[i])
    /\ (pc = "validate" /\ lastCall # None) => GoodPing(lastCall)
    /\ (pc = "idle" /\ startup = "ok" /\ lastCall # None) => GoodPing(lastCall)
    /\ startup = "ok" => contacted = ValidatedUrls
    /\ startup \in {"pending", "ok", "CrossSeedError"}
    /\ pc = "fatal" =>
           /\ startup = "CrossSeedError"
           /\ \/ lastCall # None /\ ~GoodPing(lastCall)
              \/ /\ Len(contacted) < Len(ValidatedUrls)
                 /\ ~HasApikey(ValidatedUrls[Len(contacted) + 1])

\* C7 as claimed: makeArrApiCall never raises; it yields Ok with the decoded
\* body exactly when the status is 2xx and the body parses as JSON, and Err
\* for a timeout, a network failure, another status or a non-JSON body.
C7_ErrorsAreValues ==
    lastCall # None =>
        LET o == lastCall.outcome
            r == lastCall.result
        IN /\ r.kind \in {"Ok", "Err"}
           /\ r.kind = "Ok" <=> (o.fetch = "response" /\ o.ok /\ o.body = "json")
           /\ r.kind = "Ok" => r.value = o.json

\* C9 as claimed: a scan queries the relevant instances one at a time in
\* configuration order, Sonarr entries first, each at most once, and an
\* error from one instance does not keep the later ones from being queried:
\* a scan that ends without ids has queried them all.
C9_SequentialInOrder ==
    pc \in {"scan", "scanned"} =>
        /\ IsPrefix(QueriedUrls, getRelevantArrInstances(mediaType))
        /\ pc = "scan" => scanResult = Pending
        /\ (pc = "scanned" /\ scanResult.kind # "Ok") =>
               Len(queried) = Len(getRelevantArrInstances(mediaType))

====
